---- MODULE Spec2Model ----
(***************************************************************************)
(* Model of the housing-comparison core: the AnalyticsEngine (plugin       *)
(* registry, single-flight guard, weighted aggregation, ranking) and the   *)
(* TravelTimeCache (TTL expiry, capacity eviction, write-through store).   *)
(*                                                                         *)
(* Numbers.  Weights are held in hundredths (0.4 is 40, 0.25 is 25), so an *)
(* overall score is held in hundredths of a point (100.00 is 10000).       *)
(* Plugin scores are integers 0..100.  Time is in milliseconds, counted    *)
(* from the construction of the cache.                                     *)
(***************************************************************************)
EXTENDS Integers, Sequences, FiniteSets, TLC

(***************************************************************************)
(* Bounds of the model: candidates, calculateAnalytics calls, registry and *)
(* configuration calls, locations looked up in the cache, clock advances,  *)
(* cache operations, destinations of a batch calculation.                  *)
(***************************************************************************)
NumCandidates == 2
MaxCalcs == 2
MaxOps == 1
MaxDest == 1
MaxTicks == 1
MaxCacheOps == 2
MaxBatchDests == 11

(***************************************************************************)
(* Generic helpers                                                         *)
(***************************************************************************)
SeqToSet(s) == {s[i] : i \in 1..Len(s)}

InSeq(x, s) == \E i \in 1..Len(s) : s[i] = x

RemoveAt(s, i) == [j \in 1..(Len(s) - 1) |-> IF j < i THEN s[j] ELSE s[j + 1]]

IndexOf(x, s) == CHOOSE i \in 1..Len(s) : s[i] = x

NoDup(s) == \A i, j \in 1..Len(s) : s[i] = s[j] => i = j

(***************************************************************************)
(* AnalyticsEngine: constants of the code                                  *)
(***************************************************************************)
CoreIds == <<"commute-score", "cost-score", "amenities-score", "size-score">>

CustomId == "custom-score"

PluginIds == SeqToSet(CoreIds) \cup {CustomId}

(* The ids registerPlugin and unregisterPlugin are called with: the first  *)
(* and the last core plugin and a third-party one.                         *)
OpIds == {CoreIds[1], CoreIds[Len(CoreIds)], CustomId}

DefaultWeights == [commute |-> 40, cost |-> 30, amenities |-> 20, size |-> 10]

DefaultPluginWeight == 25

AlreadyInProgress == "Analytics calculation is already in progress"

Candidates == 1..NumCandidates

(* The candidate lists handed to calculateAnalytics: no candidate, and all *)
(* the candidates in ascending and in descending order of id.              *)
Reverse(s) == [i \in 1..Len(s) |-> s[Len(s) + 1 - i]]

LocationLists ==
  {<<>>, [i \in Candidates |-> i], Reverse([i \in Candidates |-> i])}

(* The score table a plugin's calculate returns, Record<id, 0..100>: the   *)
(* plugins are pure, so the table is a function of the plugin and of the   *)
(* candidates; a table may lack an entry for a candidate.                  *)
TableFull == [c \in Candidates |-> 100 - 20 * (c - 1)]

TablePartial == [c \in Candidates \ {2} |-> 100]

PluginTable(pluginId, locations) ==
  LET t == IF pluginId \in {"cost-score", "size-score"} THEN TablePartial ELSE TableFull
  IN  [c \in DOMAIN t \cap SeqToSet(locations) |-> t[c]]

(* The (partial) weight objects handed to updateConfig: no validation is   *)
(* applied by the engine, so they need not sum to 1.                       *)
WeightUpdates ==
  { [commute |-> 25, cost |-> 25, amenities |-> 25, size |-> 25],
    [commute |-> 100, cost |-> 0] }

(***************************************************************************)
(* State                                                                   *)
(***************************************************************************)
VARIABLES
  plugins,        \* engine.plugins: the Map's keys in insertion order
  weights,        \* engine.config.weights
  isCalculating,  \* engine.isCalculating
  stack,          \* activations of calculateAnalytics past the guard, innermost last
  lastCall,       \* how the latest calculateAnalytics call ended
  calcsLeft,      \* calculateAnalytics calls still to be issued
  opsLeft,        \* registry/config operations still to be issued
  cache,          \* travelTimeCache.cache: the Map's entries in insertion order
  store,          \* localStorage['travel_time_cache'].entries, NoItem if never written
  now,            \* Date.now(), in ms since the cache was constructed
  workCoords,     \* UserServiceInstance.getProfile().workCoords
  lastOp,         \* the latest cache operation and what it returned
  pc,             \* where the batch calculation stands: the request it awaits
  destinations,   \* calculateBatchTravelTimes: the ids of `locations`
  origin,         \* calculateBatchTravelTimes: the work coordinates read at line 112
  results,        \* calculateBatchTravelTimes: `results`
  batchIndex,     \* calculateBatchTravelTimes: the loop variable i
  requests,       \* the external requests issued so far, with their outcomes
  cachedAtStart,  \* the destinations with an unexpired cache entry when the calculation began
  ticks,          \* clock advances still to be taken
  cacheOpsLeft,   \* cache operations still to be issued
  listings,       \* the candidates handed to the score calculators (allLocations)
  scored,         \* the scores calculated last, with the candidate they are for
  travel,         \* LocationService.allLocations: what each location's travelTimes holds
  inFlight,       \* the travel-time calculations suspended at an external request
  callStack,      \* the activations of TravelTimeCache methods, innermost last
  attempts        \* localStorage.setItem calls made by the operation under way

engineVars == <<plugins, weights, isCalculating, stack, lastCall, calcsLeft, opsLeft>>

cacheVars == <<cache, store, now, workCoords, lastOp, ticks, cacheOpsLeft>>

serviceVars == <<pc, destinations, origin, results, batchIndex, requests, cachedAtStart>>

scoreVars == <<listings, scored>>

loopVars == <<travel, inFlight>>

stackVars == <<callStack, attempts>>

vars == <<engineVars, cacheVars, serviceVars, scoreVars, loopVars, stackVars>>

(* The parts of the state a specification leaves alone. *)
ScoreIdle == listings = <<>> /\ scored = <<>>

LoopIdle == travel = <<>> /\ inFlight = <<>>

StackIdle == callStack = <<>> /\ attempts = 0

NoCall == [status |-> "none"]

Pending == [status |-> "pending"]

(***************************************************************************)
(* AnalyticsEngine: pure parts                                             *)
(***************************************************************************)
(* { ...a, ...b } *)
Spread(a, b) ==
  [k \in DOMAIN a \cup DOMAIN b |-> IF k \in DOMAIN b THEN b[k] ELSE a[k]]

getPluginWeight_NoDefault(pluginId, w) ==
  CASE pluginId = "commute-score" -> w.commute
    [] pluginId = "cost-score" -> w.cost
    [] pluginId = "amenities-score" -> w.amenities
    [] pluginId = "size-score" -> w.size
    [] OTHER -> 0

getPluginWeight(pluginId, w) ==
  CASE pluginId = "commute-score" -> w.commute
    [] pluginId = "cost-score" -> w.cost
    [] pluginId = "amenities-score" -> w.amenities
    [] pluginId = "size-score" -> w.size
    [] OTHER -> DefaultPluginWeight

(* scores[location.id] || 0 *)
ScoreOrZero(scores, id) == IF id \in DOMAIN scores THEN scores[id] ELSE 0

(* The inner loop of calculateOverallScores over Object.entries(pluginScores). *)
RECURSIVE WeightedScore(_, _, _, _)
WeightedScore(keys, pluginScores, id, w) ==
  IF keys = <<>> THEN 0
  ELSE WeightedScore(SubSeq(keys, 1, Len(keys) - 1), pluginScores, id, w)
       + ScoreOrZero(pluginScores[keys[Len(keys)]], id)
         * getPluginWeight(keys[Len(keys)], w)

calculateOverallScores(keys, pluginScores, locations, w) ==
  [id \in SeqToSet(locations) |-> WeightedScore(keys, pluginScores, id, w)]

(* Array.prototype.sort with (a, b) => b - a is stable: an entry goes after *)
(* every entry whose score is at least its own.                            *)
RECURSIVE InsertDesc_Ascending(_, _)
InsertDesc_Ascending(e, sorted) ==
  IF sorted = <<>> THEN <<e>>
  ELSE IF sorted[1].score <= e.score
         THEN <<sorted[1]>> \o InsertDesc_Ascending(e, Tail(sorted))
         ELSE <<e>> \o sorted

RECURSIVE InsertDesc(_, _)
InsertDesc(e, sorted) ==
  IF sorted = <<>> THEN <<e>>
  ELSE IF sorted[1].score >= e.score
         THEN <<sorted[1]>> \o InsertDesc(e, Tail(sorted))
         ELSE <<e>> \o sorted

RECURSIVE SortDesc(_)
SortDesc(entries) ==
  IF entries = <<>> THEN <<>>
  ELSE InsertDesc(entries[Len(entries)], SortDesc(SubSeq(entries, 1, Len(entries) - 1)))

(* Object.entries(overallScores) lists the ids in the order of `locations`. *)
getTopLocations(overallScores, locations) ==
  LET entries == [i \in 1..Len(locations) |->
                    [id |-> locations[i], score |-> overallScores[locations[i]]]]
      sorted == SortDesc(entries)
  IN  [i \in 1..Len(sorted) |->
         [id |-> sorted[i].id, score |-> sorted[i].score, rank |-> i]]

(***************************************************************************)
(* AnalyticsEngine: operations                                             *)
(*                                                                         *)
(* calculateAnalytics has no await: once called it runs to its end, and    *)
(* the only code that runs meanwhile is what it calls, the plugins'        *)
(* calculate and the listeners of the events it dispatches.  An activation *)
(* is therefore a frame of `stack`, advanced one plugin at a time, and the *)
(* engine's other operations may be taken between two of its steps.        *)
(***************************************************************************)
Top == stack[Len(stack)]

SetTop(f) == [stack EXCEPT ![Len(stack)] = f]

Pop == SubSeq(stack, 1, Len(stack) - 1)

NewFrame(locations) ==
  [ locations |-> locations,
    iterPos |-> 0,                 \* entries of the Map the iterator has passed
    keys |-> <<>>,                 \* Object.keys(pluginResults)
    pluginScores |-> <<>>,
    log |-> <<>>,                  \* the calculate calls made, in order
    startPlugins |-> plugins,
    startWeights |-> weights,
    rejects |-> 0 ]

CalcStart_NoGuard(locations) ==
  /\ UNCHANGED <<cacheVars, serviceVars, scoreVars, loopVars, stackVars>>
  /\ calcsLeft > 0
  /\ isCalculating' = TRUE
  /\ stack' = Append(stack, NewFrame(locations))
  /\ lastCall' = Pending
  /\ calcsLeft' = calcsLeft - 1
  /\ UNCHANGED <<plugins, weights, opsLeft>>

(* Lines 177-185: the guard is passed, the flag raised. *)
CalcStart(locations) ==
  /\ UNCHANGED <<cacheVars, serviceVars, scoreVars, loopVars, stackVars>>
  /\ calcsLeft > 0
  /\ ~isCalculating
  /\ isCalculating' = TRUE
  /\ stack' = Append(stack, NewFrame(locations))
  /\ lastCall' = Pending
  /\ calcsLeft' = calcsLeft - 1
  /\ UNCHANGED <<plugins, weights, opsLeft>>

CalcReject_ReleasesGuard ==
  /\ UNCHANGED <<cacheVars, serviceVars, scoreVars, loopVars, stackVars>>
  /\ calcsLeft > 0
  /\ isCalculating
  /\ lastCall' = [status |-> "rejected", error |-> AlreadyInProgress]
  /\ stack' = IF stack = <<>> THEN stack ELSE SetTop([Top EXCEPT !.rejects = @ + 1])
  /\ calcsLeft' = calcsLeft - 1
  /\ isCalculating' = FALSE
  /\ UNCHANGED <<plugins, weights, opsLeft>>

(* Lines 177-179: a call made while the flag is up throws at once. *)
CalcReject ==
  /\ UNCHANGED <<cacheVars, serviceVars, scoreVars, loopVars, stackVars>>
  /\ calcsLeft > 0
  /\ isCalculating
  /\ lastCall' = [status |-> "rejected", error |-> AlreadyInProgress]
  /\ stack' = IF stack = <<>> THEN stack ELSE SetTop([Top EXCEPT !.rejects = @ + 1])
  /\ calcsLeft' = calcsLeft - 1
  /\ UNCHANGED <<plugins, weights, isCalculating, opsLeft>>

(* Lines 181-185 and 243-245 with `locations` not an array (null): reading *)
(* locations.length throws inside the try, and the finally lowers the flag. *)
CalcBadInput ==
  /\ UNCHANGED <<cacheVars, serviceVars, scoreVars, loopVars, stackVars>>
  /\ calcsLeft > 0
  /\ ~isCalculating
  /\ isCalculating' = FALSE
  /\ lastCall' = [status |-> "threw", error |-> "TypeError"]
  /\ calcsLeft' = calcsLeft - 1
  /\ UNCHANGED <<plugins, weights, stack, opsLeft>>

(* Lines 193-210: the iterator yields the next plugin and its calculate    *)
(* returns a score table.                                                  *)
PluginReturn ==
  /\ UNCHANGED <<cacheVars, serviceVars, scoreVars, loopVars, stackVars>>
  /\ stack # <<>>
  /\ Top.iterPos < Len(plugins)
  /\ LET id == plugins[Top.iterPos + 1]
         scores == PluginTable(id, Top.locations)
     IN  stack' = SetTop([Top EXCEPT
           !.iterPos = @ + 1,
           !.keys = IF InSeq(id, @) THEN @ ELSE Append(@, id),
           !.pluginScores = Spread(@, [k \in {id} |-> scores]),
           !.log = Append(@, [id |-> id, threw |-> FALSE, scores |-> scores])])
  /\ UNCHANGED <<plugins, weights, isCalculating, lastCall, calcsLeft, opsLeft>>

PluginThrow_Uncaught ==
  /\ UNCHANGED <<cacheVars, serviceVars, scoreVars, loopVars, stackVars>>
  /\ stack # <<>>
  /\ Top.iterPos < Len(plugins)
  /\ lastCall' = [status |-> "threw", error |-> "plugin"]
  /\ stack' = Pop
  /\ isCalculating' = FALSE
  /\ UNCHANGED <<plugins, weights, calcsLeft, opsLeft>>

(* Lines 193-200 and 211-217: the plugin's calculate throws; the error is  *)
(* caught and the loop goes on.                                            *)
PluginThrow ==
  /\ UNCHANGED <<cacheVars, serviceVars, scoreVars, loopVars, stackVars>>
  /\ stack # <<>>
  /\ Top.iterPos < Len(plugins)
  /\ LET id == plugins[Top.iterPos + 1]
     IN  stack' = SetTop([Top EXCEPT
           !.iterPos = @ + 1,
           !.log = Append(@, [id |-> id, threw |-> TRUE, scores |-> <<>>])])
  /\ UNCHANGED <<plugins, weights, isCalculating, lastCall, calcsLeft, opsLeft>>

(* Lines 220-245: the iterator is exhausted; the result is built from the  *)
(* tables collected and the configuration as it is now, and the finally    *)
(* lowers the flag.                                                        *)
CalcFinishLeaving(flag) ==
  /\ UNCHANGED <<cacheVars, serviceVars, scoreVars, loopVars, stackVars>>
  /\ stack # <<>>
  /\ Top.iterPos >= Len(plugins)
  /\ LET f == Top
         overallScores ==
           calculateOverallScores(f.keys, f.pluginScores, f.locations, weights)
         result ==
           [ overallScores |-> overallScores,
             pluginScores |-> f.pluginScores,
             topLocations |-> getTopLocations(overallScores, f.locations),
             locationsProcessed |-> Len(f.locations),
             pluginsExecuted |-> f.keys ]
     IN  lastCall' = [ status |-> "returned",
                       result |-> result,
                       locations |-> f.locations,
                       log |-> f.log,
                       startPlugins |-> f.startPlugins,
                       startWeights |-> f.startWeights,
                       endPlugins |-> plugins,
                       endWeights |-> weights,
                       rejects |-> f.rejects ]
  /\ stack' = Pop
  /\ isCalculating' = flag
  /\ UNCHANGED <<plugins, weights, calcsLeft, opsLeft>>

CalcFinish_NoFinally == CalcFinishLeaving(isCalculating)

CalcFinish == CalcFinishLeaving(FALSE)

(* Map.prototype.delete under a live iterator: an entry already passed     *)
(* leaves a hole behind the iterator, one not yet reached is never yielded. *)
IterAfterDelete(i) ==
  [k \in 1..Len(stack) |->
     [stack[k] EXCEPT !.iterPos = IF i <= @ THEN @ - 1 ELSE @]]

(* Lines 119-125.  Map.set keeps the place of a key already present.       *)
RegisterPlugin(id) ==
  /\ UNCHANGED <<cacheVars, serviceVars, scoreVars, loopVars, stackVars>>
  /\ opsLeft > 0
  /\ plugins' = IF InSeq(id, plugins) THEN plugins ELSE Append(plugins, id)
  /\ opsLeft' = opsLeft - 1
  /\ UNCHANGED <<weights, isCalculating, stack, lastCall, calcsLeft>>

(* Lines 130-136. *)
UnregisterPlugin(id) ==
  /\ UNCHANGED <<cacheVars, serviceVars, scoreVars, loopVars, stackVars>>
  /\ opsLeft > 0
  /\ IF InSeq(id, plugins)
       THEN /\ plugins' = RemoveAt(plugins, IndexOf(id, plugins))
            /\ stack' = IterAfterDelete(IndexOf(id, plugins))
       ELSE UNCHANGED <<plugins, stack>>
  /\ opsLeft' = opsLeft - 1
  /\ UNCHANGED <<weights, isCalculating, lastCall, calcsLeft>>

(* Lines 155-164. *)
UpdateConfig(w) ==
  /\ UNCHANGED <<cacheVars, serviceVars, scoreVars, loopVars, stackVars>>
  /\ opsLeft > 0
  /\ weights' = Spread(weights, w)
  /\ opsLeft' = opsLeft - 1
  /\ UNCHANGED <<plugins, isCalculating, stack, lastCall, calcsLeft>>

(* Lines 341-359: Map.clear empties every entry (a live iterator then      *)
(* stands before the entries added next), the defaults are restored and    *)
(* the four core plugins registered anew.                                   *)
Reset ==
  /\ UNCHANGED <<cacheVars, serviceVars, scoreVars, loopVars, stackVars>>
  /\ opsLeft > 0
  /\ plugins' = CoreIds
  /\ weights' = DefaultWeights
  /\ stack' = [k \in 1..Len(stack) |-> [stack[k] EXCEPT !.iterPos = 0]]
  /\ opsLeft' = opsLeft - 1
  /\ UNCHANGED <<isCalculating, lastCall, calcsLeft>>

(* Lines 85-104: the constructor. *)
EngineInit ==
  /\ plugins = CoreIds
  /\ weights = DefaultWeights
  /\ isCalculating = FALSE
  /\ stack = <<>>
  /\ lastCall = NoCall
  /\ calcsLeft = MaxCalcs
  /\ opsLeft = MaxOps

EngineNext ==
  \/ \E locations \in LocationLists : CalcStart(locations)
  \/ CalcReject
  \/ CalcBadInput
  \/ PluginReturn
  \/ PluginThrow
  \/ CalcFinish
  \/ \E id \in OpIds : RegisterPlugin(id)
  \/ \E id \in OpIds : UnregisterPlugin(id)
  \/ \E w \in WeightUpdates : UpdateConfig(w)
  \/ Reset

(***************************************************************************)
(* TravelTimeCache: constants of the code                                  *)
(*                                                                         *)
(* Coordinates are whole numbers of 1e-7 degree, so that toFixed(6) and    *)
(* the 1e-6 tolerance of coordinatesMatch are both exact.                  *)
(***************************************************************************)
TTL == 24 * 60 * 60 * 1000

MAX_ENTRIES == 100

(* this.MAX_ENTRIES * 0.8, as Array.prototype.slice takes it *)
KeepCount == (MAX_ENTRIES * 8) \div 10

(* localStorage.getItem returned null *)
NoItem == [present |-> FALSE, entries |-> <<>>]

Stored(c) == [present |-> TRUE, entries |-> c]

Null == [null |-> TRUE]

Unset == [unset |-> TRUE]

Origins == {[lat |-> 0, lng |-> 0], [lat |-> 20, lng |-> 0]}

(* Coordinates that differ from the first origin by less than 1e-6 degree  *)
(* and yet round to another key.                                           *)
NearOrigin == [lat |-> 6, lng |-> 0]

(* The locations the operations are called with. *)
Position(d) == [lat |-> 1000 * d, lng |-> 0]

Dests == 1..MaxDest

(* The locations of the entries a previous session left in the store. *)
StoredPosition(i) == [lat |-> 1000000 + 10 * i, lng |-> 0]

BundleA ==
  [ walking |-> [distance |-> 960, duration |-> 12],
    driving |-> [distance |-> 5000, duration |-> 5],
    transit |-> [distance |-> 2700, duration |-> 9] ]

BundleZero ==
  [ walking |-> [distance |-> 0, duration |-> 0],
    driving |-> [distance |-> 0, duration |-> 0],
    transit |-> [distance |-> 0, duration |-> 0] ]

Bundles == {BundleA, BundleZero}

(* What localStorage.setItem does with a write: "ok" stores it, "quota"    *)
(* throws QuotaExceededError unless the map written is empty, "error"      *)
(* throws another error (storage disabled).                                *)
StoreModes == {"ok", "quota", "error"}

(***************************************************************************)
(* TravelTimeCache: pure parts.  A cache state is [cache, store].          *)
(***************************************************************************)
Abs(x) == IF x < 0 THEN -x ELSE x

(* Number.prototype.toFixed(6), in units of 1e-6 degree *)
Fixed6(x) == IF x >= 0 THEN (x + 5) \div 10 ELSE -((5 - x) \div 10)

generateKey(wc, position) ==
  <<Fixed6(wc.lat), Fixed6(wc.lng), Fixed6(position.lat), Fixed6(position.lng)>>

isExpired(entry, t) == (t - entry.timestamp) > TTL

coordinatesMatch(coords1, coords2) ==
  /\ Abs(coords1.lat - coords2.lat) < 10
  /\ Abs(coords1.lng - coords2.lng) < 10

HasKey(c, key) == \E i \in 1..Len(c) : c[i].key = key

EntryOf(c, key) == c[CHOOSE i \in 1..Len(c) : c[i].key = key]

(* Map.prototype.set: a key already present keeps its place. *)
MapSet(c, entry) ==
  IF HasKey(c, entry.key)
    THEN [i \in 1..Len(c) |-> IF c[i].key = entry.key THEN entry ELSE c[i]]
    ELSE Append(c, entry)

(* Map.prototype.delete of every key in `keys`: the others keep their order. *)
MapDelete(c, keys) == SelectSeq(c, LAMBDA e : e.key \notin keys)

SaveAccepted(c, sm) == sm = "ok" \/ (sm = "quota" /\ c = <<>>)

(* saveToStorage, with the clear() its catch block calls on a quota error. *)
RECURSIVE saveToStorage(_, _)
saveToStorage(st, sm) ==
  IF SaveAccepted(st.cache, sm) THEN [cache |-> st.cache, store |-> Stored(st.cache)]
  ELSE IF sm = "quota" THEN saveToStorage([cache |-> <<>>, store |-> st.store], sm)
  ELSE st

clear(st, sm) == saveToStorage([cache |-> <<>>, store |-> st.store], sm)

(* The place of entry i once the entries are sorted by timestamp           *)
(* (a.timestamp - b.timestamp, a stable sort), counted from 0.             *)
SortedRank(c, i) ==
  Cardinality({j \in 1..Len(c) :
    \/ c[j].timestamp < c[i].timestamp
    \/ (c[j].timestamp = c[i].timestamp /\ j < i)})

(* entries.slice(keepCount) is deleted: the entries sorted last. *)
performLRUCleanup_KeepsAll(st, sm) == st

performLRUCleanup(st, sm) ==
  LET c == st.cache
      toRemove == {c[i].key : i \in {j \in 1..Len(c) : SortedRank(c, j) >= KeepCount}}
      kept == MapDelete(c, toRemove)
  IN  IF toRemove # {}
        THEN saveToStorage([cache |-> kept, store |-> st.store], sm)
        ELSE st

performCleanup(st, t, sm) ==
  LET c == st.cache
      expired == {c[i].key : i \in {j \in 1..Len(c) : isExpired(c[j], t)}}
      kept == MapDelete(c, expired)
      s1 == IF expired # {}
              THEN saveToStorage([cache |-> kept, store |-> st.store], sm)
              ELSE st
  IN  IF Len(s1.cache) > MAX_ENTRIES THEN performLRUCleanup(s1, sm) ELSE s1

(* get: the value returned and the map it leaves. *)
get(c, wc, position, t) ==
  IF wc = Unset THEN [result |-> Null, cache |-> c]
  ELSE LET key == generateKey(wc, position)
       IN  IF ~HasKey(c, key) THEN [result |-> Null, cache |-> c]
           ELSE IF isExpired(EntryOf(c, key), t)
                  THEN [result |-> Null, cache |-> MapDelete(c, {key})]
                  ELSE [result |-> EntryOf(c, key).data, cache |-> c]

set(st, wc, position, travelTimes, t, sm) ==
  IF wc = Unset THEN st
  ELSE LET entry == [ key |-> generateKey(wc, position),
                      data |-> travelTimes,
                      timestamp |-> t,
                      workCoords |-> wc ]
           s1 == saveToStorage([cache |-> MapSet(st.cache, entry), store |-> st.store], sm)
       IN  IF Len(s1.cache) > MAX_ENTRIES THEN performCleanup(s1, t, sm) ELSE s1

invalidateByWorkAddress(st, coords, sm) ==
  LET c == st.cache
      hit == {c[i].key : i \in {j \in 1..Len(c) : coordinatesMatch(c[j].workCoords, coords)}}
  IN  IF hit # {}
        THEN saveToStorage([cache |-> MapDelete(c, hit), store |-> st.store], sm)
        ELSE st

(* loadFromStorage: the stored entries, swept by performCleanup. *)
loadFromStorage(stored, t, sm) ==
  IF ~stored.present THEN [cache |-> <<>>, store |-> stored]
  ELSE performCleanup([cache |-> stored.entries, store |-> stored], t, sm)

(* What a previous session left in the store: n entries written one       *)
(* millisecond apart, the last one a millisecond before this session       *)
(* began; the oldest was computed for the second origin, the others for    *)
(* the first.                                                              *)
StoredOrigin(i) == IF i = 1 THEN [lat |-> 20, lng |-> 0] ELSE [lat |-> 0, lng |-> 0]

StoredEntries(n) ==
  [i \in 1..n |->
     [ key |-> generateKey(StoredOrigin(i), StoredPosition(i)),
       data |-> BundleA,
       timestamp |-> i - n - 1,
       workCoords |-> StoredOrigin(i) ]]

(* saveToStorage runs between cache.set and the sweep, so the store may    *)
(* hold MAX_ENTRIES + 1 entries.                                           *)
StoredAtStart ==
  {NoItem} \cup
    {Stored(StoredEntries(n)) : n \in {MAX_ENTRIES, MAX_ENTRIES + 1}}

(***************************************************************************)
(* TravelTimeCache: operations                                             *)
(***************************************************************************)
St == [cache |-> cache, store |-> store]

(* lastOp after a step that calls no operation of the cache *)
Other == [op |-> "other"]

(* The timestamps of the entries of `before`, the one under `key` apart,   *)
(* that `after` no longer holds.                                           *)
RemovedTimestamps(before, after, key) ==
  LET left == {after[i].key : i \in 1..Len(after)} \cup {key}
  IN  {before[i].timestamp : i \in {j \in 1..Len(before) : before[j].key \notin left}}

CacheSet(d, travelTimes, sm) ==
  /\ UNCHANGED <<engineVars, serviceVars, scoreVars, loopVars, stackVars>>
  /\ cacheOpsLeft > 0
  /\ \E s1 \in {set(St, workCoords, Position(d), travelTimes, now, sm)} :
       /\ cache' = s1.cache
       /\ store' = s1.store
  /\ LET key == IF workCoords = Unset THEN <<>> ELSE generateKey(workCoords, Position(d))
     IN  lastOp' = [ op |-> "set",
                     applied |-> workCoords # Unset,
                     sm |-> sm,
                     data |-> travelTimes,
                     sizeBefore |-> Len(cache),
                     isNew |-> ~HasKey(cache, key),
                     evictedTs |-> RemovedTimestamps(cache, cache', key),
                     keptTs |-> {cache'[i].timestamp : i \in 1..Len(cache')},
                     readBack |-> get(cache', workCoords, Position(d), now).result ]
  /\ cacheOpsLeft' = cacheOpsLeft - 1
  /\ UNCHANGED <<now, workCoords, ticks>>

CacheGet(d) ==
  /\ UNCHANGED <<engineVars, serviceVars, scoreVars, loopVars, stackVars>>
  /\ cacheOpsLeft > 0
  /\ \E r \in {get(cache, workCoords, Position(d), now)} :
       LET key == generateKey(workCoords, Position(d))
           present == workCoords # Unset /\ HasKey(cache, key)
       IN  /\ cache' = r.cache
           /\ lastOp' = [ op |-> "get",
                          result |-> r.result,
                          present |-> present,
                          age |-> IF present THEN now - EntryOf(cache, key).timestamp ELSE 0,
                          entriesKept |-> r.cache = cache ]
  /\ cacheOpsLeft' = cacheOpsLeft - 1
  /\ UNCHANGED <<store, now, workCoords, ticks>>

CacheInvalidate(coords, sm) ==
  /\ UNCHANGED <<engineVars, serviceVars, scoreVars, loopVars, stackVars>>
  /\ cacheOpsLeft > 0
  /\ \E s1 \in {invalidateByWorkAddress(St, coords, sm)} :
       cache' = s1.cache /\ store' = s1.store
  /\ lastOp' = [op |-> "invalidate", coords |-> coords, sm |-> sm]
  /\ cacheOpsLeft' = cacheOpsLeft - 1
  /\ UNCHANGED <<now, workCoords, ticks>>

(* performCleanup, called by the hourly timer or by hand *)
CacheCleanup(sm) ==
  /\ UNCHANGED <<engineVars, serviceVars, scoreVars, loopVars, stackVars>>
  /\ cacheOpsLeft > 0
  /\ \E s1 \in {performCleanup(St, now, sm)} :
       cache' = s1.cache /\ store' = s1.store
  /\ lastOp' = [op |-> "cleanup", sm |-> sm]
  /\ cacheOpsLeft' = cacheOpsLeft - 1
  /\ UNCHANGED <<now, workCoords, ticks>>

CacheClear(sm) ==
  /\ UNCHANGED <<engineVars, serviceVars, scoreVars, loopVars, stackVars>>
  /\ cacheOpsLeft > 0
  /\ \E s1 \in {clear(St, sm)} :
       cache' = s1.cache /\ store' = s1.store
  /\ lastOp' = [op |-> "clear", sm |-> sm]
  /\ cacheOpsLeft' = cacheOpsLeft - 1
  /\ UNCHANGED <<now, workCoords, ticks>>

(* The user profile's work coordinates are set, changed or removed and   *)
(* the 'userUpdated' listener of TravelTimeIntegration runs: it reads the  *)
(* profile as it is now and invalidates by those coordinates.  (The        *)
(* recalculation it starts next writes its results with set, later.)       *)
onWorkAddressChanged(st, wc, sm) ==
  IF wc = Unset THEN st ELSE invalidateByWorkAddress(st, wc, sm)

WorkAddressChanged(coords, sm) ==
  /\ UNCHANGED <<engineVars, serviceVars, scoreVars, loopVars, stackVars>>
  /\ cacheOpsLeft > 0
  /\ workCoords # coords
  /\ workCoords' = coords
  /\ \E s1 \in {onWorkAddressChanged(St, coords, sm)} :
       cache' = s1.cache /\ store' = s1.store
  /\ lastOp' = [op |-> "workAddressChanged", old |-> workCoords, new |-> coords, sm |-> sm]
  /\ cacheOpsLeft' = cacheOpsLeft - 1
  /\ UNCHANGED <<now, ticks>>

(* The user profile's work coordinates are set, changed or removed with no *)
(* listener of 'userUpdated' installed (TravelTimeIntegration is created   *)
(* by the compare page only).                                              *)
ProfileChange(coords) ==
  /\ UNCHANGED <<engineVars, serviceVars, scoreVars, loopVars, stackVars>>
  /\ cacheOpsLeft > 0
  /\ workCoords # coords
  /\ workCoords' = coords
  /\ lastOp' = Other
  /\ cacheOpsLeft' = cacheOpsLeft - 1
  /\ UNCHANGED <<cache, store, now, ticks>>

(* Time passes. *)
Advance(dt) ==
  /\ UNCHANGED <<engineVars, serviceVars, scoreVars, loopVars, stackVars>>
  /\ ticks > 0
  /\ now' = now + dt
  /\ ticks' = ticks - 1
  /\ lastOp' = Other
  /\ UNCHANGED <<cache, store, workCoords, cacheOpsLeft>>

(* The constructor: loadFromStorage of what the store holds, with the      *)
(* profile's work coordinates as they are at that time.                    *)
CacheInitFor(stored, wc) ==
  /\ LET s0 == loadFromStorage(stored, 0, "ok")
     IN  cache = s0.cache /\ store = s0.store
  /\ now = 0
  /\ workCoords = wc
  /\ lastOp = Other
  /\ ticks = MaxTicks
  /\ cacheOpsLeft = MaxCacheOps

CacheInit(stored) == CacheInitFor(stored, [lat |-> 0, lng |-> 0])

CacheNext ==
  \/ \E d \in Dests, b \in Bundles, sm \in StoreModes : CacheSet(d, b, sm)
  \/ \E d \in Dests : CacheGet(d)
  \/ \E o \in Origins \cup {NearOrigin}, sm \in StoreModes : CacheInvalidate(o, sm)
  \/ \E sm \in StoreModes : CacheCleanup(sm)
  \/ \E sm \in StoreModes : CacheClear(sm)
  \/ \E o \in Origins \cup {Unset}, sm \in StoreModes : WorkAddressChanged(o, sm)
  \/ \E o \in Origins \cup {Unset} : ProfileChange(o)
  \/ \E dt \in {TTL, TTL + 1} : Advance(dt)

(***************************************************************************)
(* TravelTimeService.calculateBatchTravelTimes and the calculation of      *)
(* TravelTimeIntegration that calls it: constants and pure parts.          *)
(*                                                                         *)
(* A destination is named by its id d; its position is Position(d).  The   *)
(* external source reports, for destination d and a mode, a distance in    *)
(* metres and a duration in seconds that differ for every (d, mode), so    *)
(* that a value written to a result shows which element it came from.      *)
(***************************************************************************)
BATCH_SIZE == 10

Modes == <<"walking", "driving", "transit">>

ZeroEntry == [distance |-> 0, duration |-> 0]

EmptyResult(locationId) ==
  [locationId |-> locationId, walking |-> ZeroEntry, driving |-> ZeroEntry, transit |-> ZeroEntry]

ModeNumber(mode) == CHOOSE k \in 1..Len(Modes) : Modes[k] = mode

(* What the external source knows about destination d. *)
Reported(d, mode) ==
  [distance |-> 1000 * d + ModeNumber(mode), duration |-> 60 * d + 30 * ModeNumber(mode)]

(* The outcomes of one request: fetch rejects ("throw"); the response has  *)
(* a top-level status other than OK and no rows ("denied"); every element  *)
(* is OK ("ok"); the elements at even places are NOT_FOUND ("partial");    *)
(* the row holds an element for the first destination only ("short").      *)
ResponseKinds == {"throw", "denied", "ok", "partial", "short"}

Element(d, mode, status) ==
  IF status = "OK"
    THEN [status |-> status, distance |-> Reported(d, mode).distance,
          duration |-> Reported(d, mode).duration]
    ELSE [status |-> status, distance |-> 0, duration |-> 0]

Response(kind, batchDestinations, mode) ==
  CASE kind = "throw"   -> [threw |-> TRUE, status |-> "", elements |-> <<>>]
    [] kind = "denied"  -> [threw |-> FALSE, status |-> "REQUEST_DENIED", elements |-> <<>>]
    [] kind = "ok"      ->
         [threw |-> FALSE, status |-> "OK",
          elements |-> [j \in 1..Len(batchDestinations) |->
                          Element(batchDestinations[j], mode, "OK")]]
    [] kind = "partial" ->
         [threw |-> FALSE, status |-> "OK",
          elements |-> [j \in 1..Len(batchDestinations) |->
                          Element(batchDestinations[j], mode,
                                  IF j % 2 = 1 THEN "OK" ELSE "NOT_FOUND")]]
    [] kind = "short"   ->
         [threw |-> FALSE, status |-> "OK",
          elements |-> <<Element(batchDestinations[1], mode, "OK")>>]

(* Math.round(seconds / 60) for seconds >= 0 *)
RoundMinutes(seconds) == (seconds + 30) \div 60

ElementEntry(element) ==
  [distance |-> element.distance, duration |-> RoundMinutes(element.duration)]

(* calculateStraightLineDistance.  Every coordinate of the model lies on   *)
(* the meridian lng = 0, where the Haversine formula gives                 *)
(* R * |dLat| * pi / 180, 11.119 mm per 1e-7 degree; the distance is       *)
(* kept in whole metres (rounded), the duration is                         *)
(* Math.round(distance / avgSpeed), taken from the millimetres.            *)
AvgSpeed(mode) ==
  CASE mode = "walking" -> 80
    [] mode = "driving" -> 1000
    [] mode = "transit" -> 300

HaversineMillimetres(a, b) == (Abs(b.lat - a.lat) * 11119) \div 1000

calculateStraightLineDistance(a, b, mode) ==
  LET mm == HaversineMillimetres(a, b)
  IN  [ distance |-> (mm + 500) \div 1000,
        duration |-> (mm + 500 * AvgSpeed(mode)) \div (1000 * AvgSpeed(mode)) ]

(* rows[0]?.elements[j] exists and its status is OK (j counted from 0) *)
ElementOk(response, j) ==
  /\ response.status = "OK"
  /\ j + 1 <= Len(response.elements)
  /\ response.elements[j + 1].status = "OK"

(* locations.slice(i, i + BATCH_SIZE), i counted from 0 *)
Slice(seq, i) ==
  SubSeq(seq, i + 1, IF i + BATCH_SIZE < Len(seq) THEN i + BATCH_SIZE ELSE Len(seq))

(* lines 132-151: one result per location of the batch, walking filled in *)
WalkingResults(batchLocations, response) ==
  [j \in 1..Len(batchLocations) |->
     [EmptyResult(batchLocations[j]) EXCEPT
        !.walking = IF ElementOk(response, j - 1)
                      THEN ElementEntry(response.elements[j])
                      ELSE ZeroEntry]]

(* lines 165-172: the catch block's results for a failed batch *)
EmptyResults(batchLocations) ==
  [j \in 1..Len(batchLocations) |-> EmptyResult(batchLocations[j])]

(* line 328, indices counted from 0 *)
ResultIndex_NoOffset(index, j) == j

ResultIndex(index, j) == index + j

(* addAdditionalModes: the results after the response for `mode` *)
addAdditionalModes(res, batchLocations, response, mode, index) ==
  IF response.threw \/ response.status # "OK" THEN res
  ELSE [k \in 1..Len(res) |->
          LET js == {j \in 0..(Len(batchLocations) - 1) :
                       ResultIndex(index, j) = k - 1 /\ ElementOk(response, j)}
          IN  IF js = {} THEN res[k]
              ELSE [res[k] EXCEPT ![mode] =
                      ElementEntry(response.elements[(CHOOSE j \in js : TRUE) + 1])]]

Request(index, mode, dests) ==
  [index |-> index, mode |-> mode, destinations |-> Slice(dests, index), outcome |-> "pending"]

(* The request awaited gets its outcome. *)
Answered(reqs, kind) == [reqs EXCEPT ![Len(reqs)].outcome = kind]

(* results.find(r => r.locationId === location.id): 0 if there is none *)
FindResult(res, locationId) ==
  IF \E k \in 1..Len(res) : res[k].locationId = locationId
    THEN CHOOSE k \in 1..Len(res) :
           /\ res[k].locationId = locationId
           /\ \A m \in 1..(k - 1) : res[m].locationId # locationId
    ELSE 0

TravelTimesOf(result) ==
  [walking |-> result.walking, driving |-> result.driving, transit |-> result.transit]

(* TravelTimeIntegration.calculateTravelTimes, lines 94-105: cache.set for *)
(* every location that has a result, from location n on.  (Each set is     *)
(* bound by a quantifier so that it is evaluated before the next begins.)  *)
RECURSIVE CacheTheResults(_, _, _, _, _, _, _)
CacheTheResults(st, wc, locs, res, n, t, sm) ==
  IF n > Len(locs) THEN st
  ELSE LET k == FindResult(res, locs[n])
       IN  CHOOSE final \in
             { CacheTheResults(s1, wc, locs, res, n + 1, t, sm) :
                 s1 \in { IF k = 0 THEN st
                          ELSE set(st, wc, Position(locs[n]), TravelTimesOf(res[k]), t, sm) } } :
             TRUE

(* The destination counts calculations are started with. *)
DestinationCounts == {0, 1, BATCH_SIZE, MaxBatchDests}

(* The entry a previous calculation left for destination 1. *)
CachedBefore ==
  <<[ key |-> generateKey([lat |-> 0, lng |-> 0], Position(1)),
      data |-> BundleA,
      timestamp |-> -1,
      workCoords |-> [lat |-> 0, lng |-> 0] ]>>

(***************************************************************************)
(* The batch calculation: steps.  One calculation is followed from the     *)
(* 'calculateTravelTimes' event to its end; it is suspended at each        *)
(* external request (await) and resumed by the response.                   *)
(***************************************************************************)
(* After the batch at batchIndex: the walking request of the next batch,   *)
(* or the return of calculateBatchTravelTimes and the rest of the          *)
(* integration's calculation, which caches the results.                    *)
NextBatchOrFinish(res, reqs, sm) ==
  IF batchIndex + BATCH_SIZE < Len(destinations)
    THEN /\ batchIndex' = batchIndex + BATCH_SIZE
         /\ requests' = Append(reqs, Request(batchIndex + BATCH_SIZE, "walking", destinations))
         /\ pc' = "walking"
         /\ results' = res
         /\ UNCHANGED <<cache, store>>
    ELSE /\ pc' = "done"
         /\ results' = res
         /\ requests' = reqs
         /\ \E s1 \in {CacheTheResults(St, workCoords, destinations, res, 1, now, sm)} :
              cache' = s1.cache /\ store' = s1.store
         /\ UNCHANGED batchIndex

(* TravelTimeIntegration.calculateTravelTimes(locations) is called for n   *)
(* locations and runs up to its first external request.                    *)
CalculateStart(n) ==
  /\ UNCHANGED <<engineVars, scoreVars, loopVars, stackVars>>
  /\ UNCHANGED <<cache, store, now, workCoords, lastOp, ticks, cacheOpsLeft>>
  /\ pc = "idle"
  /\ destinations' = [i \in 1..n |-> i]
  /\ origin' = workCoords
  /\ cachedAtStart' =
       {d \in 1..n : get(cache, workCoords, Position(d), now).result # Null}
  /\ batchIndex' = 0
  /\ results' = <<>>
  /\ IF workCoords = Unset \/ n = 0
       THEN pc' = "done" /\ requests' = <<>>
       ELSE pc' = "walking" /\ requests' = <<Request(0, "walking", destinations')>>

(* The walking request of the batch is answered or fails. *)
WalkingResponse(kind, sm) ==
  /\ UNCHANGED <<engineVars, scoreVars, loopVars, stackVars>>
  /\ UNCHANGED <<now, workCoords, lastOp, ticks, cacheOpsLeft>>
  /\ UNCHANGED <<destinations, origin, cachedAtStart>>
  /\ pc = "walking"
  /\ LET batchLocations == Slice(destinations, batchIndex)
         response == Response(kind, batchLocations, "walking")
     IN  IF response.threw
           THEN NextBatchOrFinish(results \o EmptyResults(batchLocations),
                                  Answered(requests, kind), sm)
           ELSE /\ results' = results \o WalkingResults(batchLocations, response)
                /\ requests' = Append(Answered(requests, kind),
                                      Request(batchIndex, "driving", destinations))
                /\ pc' = "driving"
                /\ UNCHANGED <<batchIndex, cache, store>>

(* The driving or transit request of the batch is answered or fails. *)
AdditionalResponse(kind, sm) ==
  /\ UNCHANGED <<engineVars, scoreVars, loopVars, stackVars>>
  /\ UNCHANGED <<now, workCoords, lastOp, ticks, cacheOpsLeft>>
  /\ UNCHANGED <<destinations, origin, cachedAtStart>>
  /\ pc \in {"driving", "transit"}
  /\ LET batchLocations == Slice(destinations, batchIndex)
         response == Response(kind, batchLocations, pc)
         res == addAdditionalModes(results, batchLocations, response, pc, batchIndex)
     IN  IF pc = "driving"
           THEN /\ results' = res
                /\ requests' = Append(Answered(requests, kind),
                                      Request(batchIndex, "transit", destinations))
                /\ pc' = "transit"
                /\ UNCHANGED <<batchIndex, cache, store>>
           ELSE NextBatchOrFinish(res, Answered(requests, kind), sm)

ServiceInit ==
  /\ pc = "idle"
  /\ destinations = <<>>
  /\ origin = Unset
  /\ results = <<>>
  /\ batchIndex = 0
  /\ requests = <<>>
  /\ cachedAtStart = {}

ServiceNext ==
  \/ \E n \in DestinationCounts : CalculateStart(n)
  \/ \E kind \in ResponseKinds, sm \in StoreModes : WalkingResponse(kind, sm)
  \/ \E kind \in ResponseKinds, sm \in StoreModes : AdditionalResponse(kind, sm)

(***************************************************************************)
(* Specifications: the engine alone (the cache constructed over an empty   *)
(* store and left alone), the cache alone, and one batch calculation of    *)
(* travel times over a cache that is empty or holds an entry for the first *)
(* destination, with the work coordinates set or not.                      *)
(***************************************************************************)
Init == EngineInit /\ CacheInit(NoItem) /\ ServiceInit /\ ScoreIdle /\ LoopIdle /\ StackIdle

Next == EngineNext

Spec == Init /\ [][Next]_vars

CacheSpecInit ==
  /\ EngineInit /\ ServiceInit /\ ScoreIdle /\ LoopIdle /\ StackIdle
  /\ \E stored \in StoredAtStart : CacheInit(stored)

CacheSpec == CacheSpecInit /\ [][CacheNext]_vars

ServiceSpecInit ==
  /\ EngineInit
  /\ ServiceInit
  /\ ScoreIdle /\ LoopIdle /\ StackIdle
  /\ \E stored \in {NoItem, Stored(CachedBefore)}, wc \in {[lat |-> 0, lng |-> 0], Unset} :
       CacheInitFor(stored, wc)

ServiceSpec == ServiceSpecInit /\ [][ServiceNext]_vars


(***************************************************************************)
(* AnalyticsEngine: properties                                             *)
(***************************************************************************)
CalcStartAny == \E locations \in LocationLists : CalcStart(locations)

Returned == lastCall.status = "returned"

LogIds(log) == [i \in 1..Len(log) |-> log[i].id]

(* The ids whose calculate returned at least once in the calculation. *)
ReturnedIds(log) == {log[i].id : i \in {j \in 1..Len(log) : ~log[j].threw}}

(* The ids whose calculate only ever threw in the calculation. *)
ThrownIds(log) == {log[i].id : i \in 1..Len(log)} \ ReturnedIds(log)

RECURSIVE SumOver(_, _)
SumOver(S, f) ==
  IF S = {} THEN 0
  ELSE LET x == CHOOSE y \in S : TRUE IN f[x] + SumOver(S \ {x}, f)

(* C1: a calculateAnalytics call made while a calculation is running is    *)
(* rejected with 'Analytics calculation is already in progress' and runs   *)
(* no plugin, and never are two calculations past the guard at once.       *)
C1_SingleFlight ==
  /\ [](Len(stack) <= 1 /\ (stack # <<>> => isCalculating /\ ~ENABLED CalcStartAny))
  /\ [][(stack # <<>> /\ stack' # <<>> /\ Top'.rejects > Top.rejects) =>
         /\ lastCall' = [status |-> "rejected", error |-> AlreadyInProgress]
         /\ Top'.log = Top.log
         /\ Top'.iterPos = Top.iterPos
         /\ isCalculating']_vars

C1_Witness ==
  /\ stack # <<>>
  /\ Top.rejects > 0
  /\ Top.log # <<>>
  /\ lastCall.status = "rejected"

(* C2: whenever no calculation is running (none started yet, or the latest *)
(* returned in full, returned partial results, or threw) the engine is     *)
(* Idle, and a further calculateAnalytics call passes the guard.           *)
C2_ReturnsToIdle ==
  stack = <<>> =>
    /\ ~isCalculating
    /\ calcsLeft > 0 => ENABLED CalcStartAny

C2_Witness ==
  /\ stack = <<>>
  /\ Returned
  /\ \E i \in 1..Len(lastCall.log) : lastCall.log[i].threw
  /\ calcsLeft > 0

(* C3: a plugin whose calculate throws never makes calculateAnalytics      *)
(* throw; in the result returned every plugin registered was run, a plugin *)
(* that threw is absent from pluginsExecuted and pluginScores, and the     *)
(* tables and overall scores are those of the plugins that returned alone. *)
C3_PluginIsolation ==
  /\ lastCall.status = "threw" => lastCall.error = "TypeError"
  /\ Returned =>
       LET log == lastCall.log
           r == lastCall.result
           ok == ReturnedIds(log)
       IN  /\ SeqToSet(lastCall.endPlugins) \subseteq SeqToSet(LogIds(log))
           /\ SeqToSet(r.pluginsExecuted) = ok
           /\ DOMAIN r.pluginScores = ok
           /\ ThrownIds(log) \cap (SeqToSet(r.pluginsExecuted) \cup DOMAIN r.pluginScores) = {}
           /\ \A id \in ok : r.pluginScores[id] = PluginTable(id, lastCall.locations)
           /\ \A c \in SeqToSet(lastCall.locations) :
                 r.overallScores[c] =
                   SumOver(ok, [id \in ok |->
                     ScoreOrZero(PluginTable(id, lastCall.locations), c)
                       * getPluginWeight(id, lastCall.endWeights)])

C3_Witness ==
  /\ Returned
  /\ ThrownIds(lastCall.log) # {}
  /\ ReturnedIds(lastCall.log) # {}
  /\ lastCall.locations # <<>>

(* C4: every overall score is the sum, over the plugins executed, of the   *)
(* plugin's score for the candidate (0 if it has none) times the plugin's  *)
(* weight: the configured weight of the four core ids, 0.25 for any other. *)
C4_WeightedSum ==
  Returned =>
    LET r == lastCall.result
        w == lastCall.endWeights
        ran == SeqToSet(r.pluginsExecuted)
        weightOf == [id \in ran |->
          IF id = "commute-score" THEN w.commute
          ELSE IF id = "cost-score" THEN w.cost
          ELSE IF id = "amenities-score" THEN w.amenities
          ELSE IF id = "size-score" THEN w.size
          ELSE 25]
    IN  /\ DOMAIN r.overallScores = SeqToSet(lastCall.locations)
        /\ \A c \in SeqToSet(lastCall.locations) :
              r.overallScores[c] =
                SumOver(ran, [id \in ran |->
                  (IF c \in DOMAIN r.pluginScores[id] THEN r.pluginScores[id][c] ELSE 0)
                    * weightOf[id]])

C4_Witness ==
  /\ Returned
  /\ CustomId \in SeqToSet(lastCall.result.pluginsExecuted)
  /\ "cost-score" \in SeqToSet(lastCall.result.pluginsExecuted)
  /\ 2 \in SeqToSet(lastCall.locations)

(* C5: every overall score returned lies in [0,100] (0..10000 hundredths), *)
(* whatever registerPlugin, unregisterPlugin, updateConfig and reset did.  *)
C5_OverallInRange ==
  Returned =>
    \A c \in SeqToSet(lastCall.locations) :
      lastCall.result.overallScores[c] \in 0..10000

(* C6: topLocations holds every candidate exactly once, in non-increasing  *)
(* order of overall score, and its i-th entry has rank i.                  *)
C6_Ranking ==
  Returned =>
    LET top == lastCall.result.topLocations
        overall == lastCall.result.overallScores
    IN  /\ Len(top) = Len(lastCall.locations)
        /\ {top[i].id : i \in 1..Len(top)} = SeqToSet(lastCall.locations)
        /\ \A i, j \in 1..Len(top) : top[i].id = top[j].id => i = j
        /\ \A i \in 1..Len(top) : top[i].rank = i /\ top[i].score = overall[top[i].id]
        /\ \A i, j \in 1..Len(top) : i < j => top[i].score >= top[j].score

C6_Witness ==
  /\ Returned
  /\ Len(lastCall.locations) >= 2
  /\ lastCall.result.topLocations[1].id # lastCall.locations[1]
  /\ lastCall.result.topLocations[1].score > lastCall.result.topLocations[2].score

(* C7: the plugins run by a calculation and the weights it uses are those  *)
(* registered and configured when it started, whatever registerPlugin,     *)
(* unregisterPlugin and updateConfig are called while it is in flight.     *)
C7_InFlightUnaffected ==
  Returned =>
    /\ LogIds(lastCall.log) = lastCall.startPlugins
    /\ lastCall.endWeights = lastCall.startWeights

(***************************************************************************)
(* TravelTimeCache: properties                                             *)
(***************************************************************************)
(* C8: with the work coordinates set and the store accepting the write, a  *)
(* get made right after set(o,d,bundle) returns the bundle stored; and a   *)
(* get of an entry more than TTL old returns null.                         *)
C8_RoundTrip ==
  /\ (lastOp.op = "set" /\ lastOp.applied /\ lastOp.sm = "ok") =>
       lastOp.readBack = lastOp.data
  /\ (lastOp.op = "get" /\ lastOp.present /\ lastOp.age > TTL) =>
       lastOp.result = Null

(* C9: a get of an entry older than the TTL returns null and leaves the    *)
(* entries of the cache as they were.                                      *)
C9_SoftExpiry ==
  (lastOp.op = "get" /\ lastOp.present /\ lastOp.age > TTL) =>
    (lastOp.result = Null /\ lastOp.entriesKept)

(* C10: after the constructor and after every cache operation the cache    *)
(* holds at most MAX_ENTRIES (100) entries.                                *)
C10_EvictionBound == Len(cache) <= 100

C10_Witness ==
  /\ lastOp.op = "set"
  /\ lastOp.sm = "ok"
  /\ lastOp.sizeBefore = MAX_ENTRIES
  /\ Len(cache) < lastOp.sizeBefore

(* C11: when a set pushes the cache over its capacity with the store       *)
(* accepting writes, the entry just written is still there and no entry    *)
(* removed is more recent than an entry that survives.                     *)
C11_EvictionOrder ==
  ( /\ lastOp.op = "set"
    /\ lastOp.applied
    /\ lastOp.sm = "ok"
    /\ lastOp.isNew
    /\ lastOp.sizeBefore + 1 > 100 ) =>
      /\ lastOp.readBack = lastOp.data
      /\ \A e \in lastOp.evictedTs : \A k \in lastOp.keptTs : e <= k

(* C12: invalidateByWorkAddress(o) leaves no entry whose stored origin is  *)
(* within 1e-6 degree of o in both coordinates, and leaves every other     *)
(* entry as it was (key, bundle, timestamp and origin).                    *)
C12_InvalidateExact ==
  [][lastOp'.op = "invalidate" =>
       /\ \A i \in 1..Len(cache') :
            ~( /\ Abs(cache'[i].workCoords.lat - lastOp'.coords.lat) < 10
               /\ Abs(cache'[i].workCoords.lng - lastOp'.coords.lng) < 10 )
       /\ \A i \in 1..Len(cache) :
            ~( /\ Abs(cache[i].workCoords.lat - lastOp'.coords.lat) < 10
               /\ Abs(cache[i].workCoords.lng - lastOp'.coords.lng) < 10 )
              => \E j \in 1..Len(cache') : cache'[j] = cache[i]]_vars

(* C13: once a change of the work address from one origin to a different   *)
(* origin has been handled, the cache holds no entry computed for the old  *)
(* origin.                                                                 *)
C13_OldOriginInvalidated ==
  ( /\ lastOp.op = "workAddressChanged"
    /\ lastOp.old # Unset
    /\ lastOp.new # Unset ) =>
      \A i \in 1..Len(cache) : cache[i].workCoords # lastOp.old

(* C14: an operation that changes the in-memory map while the store        *)
(* accepts writes leaves the entries held by the store equal to the        *)
(* in-memory entries.                                                      *)
C14_WriteThrough ==
  [][( /\ cache' # cache
       /\ \/ lastOp'.op = "get"
          \/ (lastOp'.op \notin {"get", "other"} /\ lastOp'.sm = "ok") )
       => store'.entries = cache']_vars

(* C15: a set during which the store throws on write (quota exhausted or   *)
(* any other error), made below capacity, leaves the entry written and     *)
(* every entry held before in memory: the immediate get returns the bundle.*)
C15_SaveFailureHarmless ==
  ( /\ lastOp.op = "set"
    /\ lastOp.applied
    /\ lastOp.sm # "ok"
    /\ lastOp.sizeBefore < MAX_ENTRIES ) =>
      /\ lastOp.readBack = lastOp.data
      /\ lastOp.evictedTs = {}

(***************************************************************************)
(* Batch calculation: properties                                           *)
(***************************************************************************)
(* The calculation has ended and did compute (the work coordinates were    *)
(* set when it began).                                                     *)
BatchReturned == pc = "done" /\ origin # Unset

(* The places (from 0) at which the batches of the destinations begin. *)
BatchOffsets ==
  {i \in 0..(Len(destinations) - 1) : i % 10 = 0}

BatchOf(i) ==
  SubSeq(destinations, i + 1, IF i + 10 < Len(destinations) THEN i + 10 ELSE Len(destinations))

RequestsFor(i, mode) ==
  {k \in 1..Len(requests) : requests[k].index = i /\ requests[k].mode = mode}

(* The element at place j (from 1) of a response of this outcome is OK. *)
AnsweredOk(outcome, j) ==
  \/ outcome = "ok"
  \/ outcome = "partial" /\ j % 2 = 1
  \/ outcome = "short" /\ j = 1

(* What the source reported for destination d, as a result entry. *)
ReportedEntry(d, mode) ==
  [distance |-> Reported(d, mode).distance,
   duration |-> (Reported(d, mode).duration + 30) \div 60]

(* C16: a calculation over N destinations has issued, for every batch of   *)
(* at most 10 consecutive destinations and each of the three modes,        *)
(* exactly one request, for that batch's destinations, and no other        *)
(* request, whatever the outcomes of the requests.                         *)
C16_Batching ==
  BatchReturned =>
    /\ \A i \in BatchOffsets : \A m \in 1..3 :
         /\ Cardinality(RequestsFor(i, Modes[m])) = 1
         /\ \A k \in RequestsFor(i, Modes[m]) : requests[k].destinations = BatchOf(i)
    /\ \A k \in 1..Len(requests) : requests[k].index \in BatchOffsets

(* C17: the calculation returns one result per destination, in request     *)
(* order, result[i] carrying destination[i]'s id; each mode's entry of     *)
(* result[i] is zero or the value reported for destination[i], and the     *)
(* element at place j of an answered request of the batch beginning at     *)
(* offset is in result[offset + j].                                        *)
C17_IndexCorrespondence ==
  BatchReturned =>
    /\ Len(results) = Len(destinations)
    /\ \A i \in 1..Len(results) :
         /\ results[i].locationId = destinations[i]
         /\ \A m \in 1..3 :
              results[i][Modes[m]] \in {ZeroEntry, ReportedEntry(destinations[i], Modes[m])}
    /\ \A k \in 1..Len(requests) :
         \A j \in 1..Len(requests[k].destinations) :
           AnsweredOk(requests[k].outcome, j) =>
             /\ requests[k].index + j <= Len(results)
             /\ results[requests[k].index + j][requests[k].mode] =
                  ReportedEntry(requests[k].destinations[j], requests[k].mode)

C17_Witness ==
  /\ BatchReturned
  /\ Len(destinations) > 10
  /\ \E k \in 1..Len(requests) : requests[k].outcome \in {"throw", "denied"}
  /\ \E k \in 1..Len(requests) : requests[k].index = 10 /\ requests[k].outcome = "ok"
  /\ results[Len(results)].transit # ZeroEntry

(* C18: when the request for one mode of a batch fails as a whole, the     *)
(* requests for the other two modes of that batch are made all the same,   *)
(* and the elements they answer OK are in the results.                     *)
C18_ModeIsolation ==
  BatchReturned =>
    \A k \in 1..Len(requests) :
      requests[k].outcome = "throw" =>
        \A m \in 1..3 :
          Modes[m] # requests[k].mode =>
            /\ RequestsFor(requests[k].index, Modes[m]) # {}
            /\ \A k2 \in RequestsFor(requests[k].index, Modes[m]) :
                 \A j \in 1..Len(requests[k2].destinations) :
                   AnsweredOk(requests[k2].outcome, j) =>
                     results[requests[k2].index + j][Modes[m]] =
                       ReportedEntry(requests[k2].destinations[j], Modes[m])

(* C19: the entry of a destination and mode for which the source failed    *)
(* (the request failed as a whole, the response's status is not OK, or     *)
(* the element is not OK) is the fallback estimate from the straight-line  *)
(* distance between origin and destination.                                *)
C19_Fallback ==
  BatchReturned =>
    \A k \in 1..Len(requests) :
      \A j \in 1..Len(requests[k].destinations) :
        ~AnsweredOk(requests[k].outcome, j) =>
          results[requests[k].index + j][requests[k].mode] =
            calculateStraightLineDistance(origin, Position(requests[k].destinations[j]),
                                          requests[k].mode)

(* C20: no external request is made for a destination that had an          *)
(* unexpired cache entry for the current origin when the calculation       *)
(* began.                                                                  *)
C20_CacheFirst ==
  \A k \in 1..Len(requests) :
    \A j \in 1..Len(requests[k].destinations) :
      requests[k].destinations[j] \notin cachedAtStart

(* C21: after a calculation, no cache entry holds an all-zero bundle, and  *)
(* every destination whose result has a resolved mode has an entry for the *)
(* current origin equal to its result.                                     *)
C21_OnlyResolvedCached ==
  BatchReturned =>
    /\ \A i \in 1..Len(cache) : cache[i].data # BundleZero
    /\ \A i \in 1..Len(results) :
         TravelTimesOf(results[i]) # BundleZero =>
           get(cache, workCoords, Position(results[i].locationId), now).result =
             TravelTimesOf(results[i])

(***************************************************************************)
(* The batch calculation with a source that may never answer.  fetch is    *)
(* awaited without a timer or an abort signal (calculateBatch, line 247):  *)
(* a request the source never answers leaves its promise pending, and no   *)
(* step of the calculation is left to take.  Every step that can be taken  *)
(* is taken in the end (weak fairness of the calculation's steps).         *)
(***************************************************************************)
NeverAnswered ==
  /\ UNCHANGED <<engineVars, cacheVars, scoreVars, loopVars, stackVars>>
  /\ UNCHANGED <<destinations, origin, results, batchIndex, cachedAtStart>>
  /\ pc \in {"walking", "driving", "transit"}
  /\ requests' = Answered(requests, "never")
  /\ pc' = "unanswered"

(* The steps of a calculation over at most two destinations whose requests *)
(* are answered.                                                           *)
WaitAnswered ==
  \/ \E n \in {0, 1, 2} : CalculateStart(n)
  \/ \E kind \in {"ok", "throw", "denied"}, sm \in StoreModes : WalkingResponse(kind, sm)
  \/ \E kind \in {"ok", "throw", "denied"}, sm \in StoreModes : AdditionalResponse(kind, sm)

WaitNext ==
  \/ WaitAnswered
  \/ NeverAnswered

WaitSpec == ServiceSpecInit /\ [][WaitNext]_vars /\ WF_vars(WaitAnswered)

(* C22: every calculation that was started comes to its end (where the     *)
(* completed or error notification is emitted), even if the source never   *)
(* answers a request.                                                      *)
C22_BoundedWait == (pc # "idle") ~> (pc = "done")

(***************************************************************************)
(* The score calculators (CommuteScore, CostScore, AmenityScore,           *)
(* SizeScore): pure functions of a candidate and of the candidate list.    *)
(*                                                                         *)
(* Numbers.  A rent is held in units of 10,000 cents (100 dollars), so the *)
(* maxRent threshold of 500000 cents is 50.  A score that the code gets by *)
(* a division is held exactly, as a fraction [num, den] with den > 0.      *)
(***************************************************************************)
NumListed == 2

DEFAULT_SCORE_CONFIG ==
  [thresholds |-> [maxCommuteTime |-> 60, maxRent |-> 50, minSquareFootage |-> 500]]

Rat(n, d) == [num |-> n, den |-> d]

RatLE(a, b) == a.num * b.den <= b.num * a.den

MinOf(S) == CHOOSE x \in S : \A y \in S : x <= y

MaxOf(S) == CHOOSE x \in S : \A y \in S : y <= x

RatClamp_Unclamped(lo, hi, x) == x

(* Math.max(lo, Math.min(hi, x)) for whole numbers lo <= hi *)
RatClamp(lo, hi, x) ==
  IF ~RatLE(Rat(lo, 1), x) THEN Rat(lo, 1)
  ELSE IF ~RatLE(x, Rat(hi, 1)) THEN Rat(hi, 1)
  ELSE x

(* CommuteScore.calculate.  The three times are duration / 60; they are    *)
(* compared here through the durations themselves (time <= 15 is           *)
(* duration <= 15 * 60).                                                   *)
CommuteScore(location) ==
  IF location.travelTimes = Unset THEN 0
  ELSE LET durations == [m \in 1..3 |-> location.travelTimes[Modes[m]].duration]
           bestCommuteTime60 == MinOf({durations[m] : m \in 1..3})
           score == IF bestCommuteTime60 <= 15 * 60 THEN 100
                    ELSE IF bestCommuteTime60 <= 30 * 60 THEN 85
                    ELSE IF bestCommuteTime60 <= 45 * 60 THEN 70
                    ELSE IF bestCommuteTime60 <=
                              DEFAULT_SCORE_CONFIG.thresholds.maxCommuteTime * 60 THEN 50
                    ELSE 25
           goodOptions == Cardinality({m \in 1..3 : durations[m] <= 30 * 60})
           bonusContribution == IF goodOptions >= 2 THEN 10 ELSE 0
       IN  IF score + bonusContribution > 100 THEN 100 ELSE score + bonusContribution

(* CostScore.calculate *)
CostScore(location, allLocations) ==
  IF location.rent <= 0 THEN Rat(0, 1)
  ELSE LET rents == {allLocations[i].rent : i \in 1..Len(allLocations)} \ {0}
       IN  IF rents = {} THEN Rat(50, 1)
           ELSE LET minRent == MinOf(rents)
                    maxRent == MinOf({MaxOf(rents), DEFAULT_SCORE_CONFIG.thresholds.maxRent})
                    rentRange == maxRent - minRent
                    baseScore == IF rentRange > 0
                                   THEN Rat(100 * rentRange - (location.rent - minRent) * 100,
                                            rentRange)
                                   ELSE Rat(100, 1)
                    bonus == IF 10 * location.rent <= 11 * minRent THEN 10 ELSE 0
                    bonusContribution ==
                      IF 10 * location.rent >= 8 * DEFAULT_SCORE_CONFIG.thresholds.maxRent
                        THEN MaxOf({-15, bonus - 15})
                        ELSE bonus
                IN  RatClamp(0, 100,
                             Rat(baseScore.num + bonusContribution * baseScore.den,
                                 baseScore.den))

(* A rated amenity: (rating / 5) * 20 when rated, 20 * 0.6 when it is there *)
(* without a rating (rating 0 stands for no rating), nothing otherwise.     *)
RatedContribution(amenity) ==
  IF ~amenity.has THEN 0
  ELSE IF amenity.rating # 0 THEN amenity.rating * 4
  ELSE 12

(* AmenityScore.calculate *)
AmenityScore(location) ==
  LET amenities == location.amenities
      basicScore ==
        (IF amenities.parking THEN 10 ELSE 0)
        + (IF amenities.laundry = "in-unit" THEN 15
           ELSE IF amenities.laundry = "building" THEN 8 ELSE 0)
        + (IF amenities.pets THEN 5 ELSE 0)
      score == RatedContribution(amenities.gym) + RatedContribution(amenities.pool)
               + RatedContribution(amenities.outdoorSpace) + basicScore
  IN  IF score > 100 THEN 100 ELSE score

(* SizeScore.calculate *)
SizeScore(location, allLocations) ==
  IF location.squareFootage <= 0 THEN Rat(0, 1)
  ELSE LET sizes == {allLocations[i].squareFootage : i \in 1..Len(allLocations)} \ {0}
       IN  IF sizes = {} THEN Rat(50, 1)
           ELSE LET minSize == MinOf(sizes)
                    maxSize == MaxOf(sizes)
                    sizeRange == maxSize - minSize
                    sizeScore == IF sizeRange > 0
                                   THEN Rat((location.squareFootage - minSize) * 50, sizeRange)
                                   ELSE Rat(25, 1)
                    bonusScore ==
                      IF location.squareFootage >=
                           DEFAULT_SCORE_CONFIG.thresholds.minSquareFootage THEN 10 ELSE 0
                    bedroomScore == (IF location.bedrooms >= 1 THEN 10 ELSE 0)
                                    + (IF location.bedrooms >= 2 THEN 10 ELSE 0)
                                    + (IF location.bedrooms >= 3 THEN 10 ELSE 0)
                    bathroomScore == (IF location.bathrooms >= 1 THEN 5 ELSE 0)
                                     + (IF location.bathrooms >= 2 THEN 5 ELSE 0)
                IN  RatClamp(0, 100,
                             Rat(sizeScore.num
                                   + (bonusScore + bedroomScore + bathroomScore) * sizeScore.den,
                                 sizeScore.den))

(* ScoreCombiner.calculateCombinedScores: the four scores of a candidate *)
calculateCombinedScores(location, allLocations) ==
  [ commuteScore |-> CommuteScore(location),
    costScore |-> CostScore(location, allLocations),
    amenityScore |-> AmenityScore(location),
    sizeScore |-> SizeScore(location, allLocations) ]

(***************************************************************************)
(* The candidates the calculators are applied to.                          *)
(***************************************************************************)
(* A bundle as calculateBatchTravelTimes writes it, from the durations (in *)
(* seconds) the source reported for the three modes; 0 is a mode that did  *)
(* not resolve.                                                            *)
BundleOfSeconds(secs) ==
  [m \in {"walking", "driving", "transit"} |->
     ElementEntry([distance |-> IF secs[ModeNumber(m)] = 0 THEN 0 ELSE 1000 * ModeNumber(m),
                   duration |-> secs[ModeNumber(m)]])]

SecondsReported ==
  << <<0, 0, 0>>, <<720, 300, 540>>, <<1200, 1200, 1200>>, <<2400, 0, 6000>>,
     <<2400, 2400, 6000>>, <<3300, 3300, 3300>>, <<6000, 6000, 6000>> >>

AmenityChoices ==
  << [parking |-> FALSE, laundry |-> "none", pets |-> FALSE,
      gym |-> [has |-> FALSE, rating |-> 0], pool |-> [has |-> FALSE, rating |-> 0],
      outdoorSpace |-> [has |-> FALSE, rating |-> 0]],
     [parking |-> TRUE, laundry |-> "in-unit", pets |-> TRUE,
      gym |-> [has |-> TRUE, rating |-> 5], pool |-> [has |-> TRUE, rating |-> 5],
      outdoorSpace |-> [has |-> TRUE, rating |-> 5]],
     [parking |-> FALSE, laundry |-> "building", pets |-> TRUE,
      gym |-> [has |-> TRUE, rating |-> 0], pool |-> [has |-> TRUE, rating |-> 1],
      outdoorSpace |-> [has |-> FALSE, rating |-> 3]] >>

(* rent, squareFootage, bedrooms, bathrooms *)
PropertyChoices ==
  { <<0, 0, 0, 0>>, <<10, 400, 1, 1>>, <<11, 500, 2, 1>>, <<30, 900, 3, 2>>,
    <<45, 500, 0, 0>>, <<60, 1200, 4, 3>> }

Rents == {0, 10, 11, 30, 40, 45, 60}

Candidate(travelTimes, amenities, property) ==
  [ travelTimes |-> travelTimes,
    amenities |-> amenities,
    rent |-> property[1],
    squareFootage |-> property[2],
    bedrooms |-> property[3],
    bathrooms |-> property[4] ]

(* The first candidate of a list has no travel times (i = 0) or the i-th   *)
(* bundle, and the amenities that go with i; the others have no travel     *)
(* times yet, no amenity and one of four properties.                       *)
FirstCandidates ==
  { Candidate(IF i = 0 THEN Unset ELSE BundleOfSeconds(SecondsReported[i]),
              AmenityChoices[(i % Len(AmenityChoices)) + 1], p) :
      i \in 0..Len(SecondsReported), p \in PropertyChoices }

OtherCandidates ==
  { Candidate(Unset, AmenityChoices[1], p) :
      p \in {q \in PropertyChoices : q[1] \in {0, 10, 30, 60}} }

(***************************************************************************)
(* The calculators: steps                                                  *)
(***************************************************************************)
(* A candidate is added to the list. *)
AddListing(c) ==
  /\ UNCHANGED <<engineVars, cacheVars, serviceVars, loopVars, stackVars>>
  /\ Len(listings) < NumListed
  /\ c \in (IF listings = <<>> THEN FirstCandidates ELSE OtherCandidates)
  /\ listings' = Append(listings, c)
  /\ scored' = <<>>

(* calculateCombinedScores(listings[k], listings) *)
CalculateScores(k) ==
  /\ UNCHANGED <<engineVars, cacheVars, serviceVars, loopVars, stackVars>>
  /\ k \in 1..Len(listings)
  /\ scored' = <<[ op |-> "calculate", index |-> k,
                   scores |-> calculateCombinedScores(listings[k], listings) ]>>
  /\ UNCHANGED listings

(* The rent of candidate k is replaced by a smaller one and its cost score *)
(* calculated again.                                                       *)
LowerRent(k, rent) ==
  /\ UNCHANGED <<engineVars, cacheVars, serviceVars, loopVars, stackVars>>
  /\ k \in 1..Len(listings)
  /\ rent < listings[k].rent
  /\ listings' = [listings EXCEPT ![k].rent = rent]
  /\ scored' = <<[ op |-> "lowerRent", index |-> k,
                   before |-> CostScore(listings[k], listings),
                   after |-> CostScore(listings'[k], listings') ]>>

ScoreNext ==
  \/ \E c \in FirstCandidates \cup OtherCandidates : AddListing(c)
  \/ \E k \in 1..NumListed : CalculateScores(k)
  \/ \E k \in 1..NumListed, rent \in Rents : LowerRent(k, rent)

ScoreSpecInit ==
  /\ EngineInit /\ CacheInit(NoItem) /\ ServiceInit /\ LoopIdle /\ StackIdle
  /\ ScoreIdle

ScoreSpec == ScoreSpecInit /\ [][ScoreNext]_vars

(***************************************************************************)
(* The calculators: properties                                             *)
(***************************************************************************)
Calculated == scored # <<>> /\ scored[1].op = "calculate"

(* The bundle the last calculation was for; its durations are minutes. *)
ScoredBundle == listings[scored[1].index].travelTimes

(* C23: for a candidate with a bundle whose per-mode durations are in      *)
(* minutes, m their minimum, the commute score is 100 if m <= 15, 85 if    *)
(* m <= 30, 70 if m <= 45, 50 if m <= 60, else 25, plus 10 (capped at      *)
(* 100) when at least two modes are each <= 30 minutes.                    *)
C23_CommuteStep ==
  (Calculated /\ ScoredBundle # Unset) =>
    LET minutes == {ScoredBundle[Modes[m]].duration : m \in 1..3}
        m == CHOOSE x \in minutes : \A y \in minutes : x <= y
        step == IF m <= 15 THEN 100 ELSE IF m <= 30 THEN 85 ELSE IF m <= 45 THEN 70
                ELSE IF m <= 60 THEN 50 ELSE 25
        good == Cardinality({k \in 1..3 : ScoredBundle[Modes[k]].duration <= 30})
        claimed == IF good >= 2 THEN step + 10 ELSE step
    IN  scored[1].scores.commuteScore = (IF claimed > 100 THEN 100 ELSE claimed)

(* C24: a candidate whose bundle has zero duration in every mode gets the  *)
(* commute score 0 ('no data'), and a mode with zero duration is not taken *)
(* as the best commute time: the score is that of the modes that resolved. *)
C24_ZeroIsUnknown ==
  (Calculated /\ ScoredBundle # Unset) =>
    LET resolved == {k \in 1..3 : ScoredBundle[Modes[k]].duration # 0}
        onlyResolved ==
          [m \in {"walking", "driving", "transit"} |->
             IF ScoredBundle[m].duration # 0 THEN ScoredBundle[m]
             ELSE [distance |-> 0,
                   duration |-> MaxOf({ScoredBundle[Modes[k]].duration : k \in 1..3})]]
    IN  /\ resolved = {} => scored[1].scores.commuteScore = 0
        /\ resolved # {} =>
             scored[1].scores.commuteScore <=
               CommuteScore([travelTimes |-> onlyResolved])

(* C25: replacing a candidate's rent by a smaller one, all else unchanged, *)
(* never yields a strictly lower cost score for that candidate.            *)
C25_CostMonotone ==
  (scored # <<>> /\ scored[1].op = "lowerRent") =>
    RatLE(scored[1].before, scored[1].after)

InRange(x) == RatLE(Rat(0, 1), x) /\ RatLE(x, Rat(100, 1))

(* C26: each of the commute, cost, amenity and size scores of a candidate  *)
(* of the data model, within any candidate list, is in [0, 100].           *)
C26_ScoreBounds ==
  Calculated =>
    /\ scored[1].scores.commuteScore \in 0..100
    /\ InRange(scored[1].scores.costScore)
    /\ scored[1].scores.amenityScore \in 0..100
    /\ InRange(scored[1].scores.sizeScore)

(* A calculation for the second of two candidates, with a fractional cost  *)
(* and size score, after one for a candidate with every amenity.           *)
C26_Witness ==
  /\ Calculated
  /\ Len(listings) = NumListed
  /\ scored[1].index = NumListed
  /\ scored[1].scores.costScore.den > 1
  /\ scored[1].scores.sizeScore.den > 1
  /\ AmenityScore(listings[1]) = 90
  /\ CommuteScore(listings[1]) = 100

(***************************************************************************)
(* The automatic travel-time updates of TravelTimeIntegration: the         *)
(* 'locationsUpdated' listener, the calculations it starts and their       *)
(* write-back through LocationService.patch, which notifies                *)
(* 'locationsUpdated' synchronously.                                       *)
(*                                                                         *)
(* travel[l] says what location l's travelTimes holds: "none", "zero" (an  *)
(* all-zero bundle) or "valid".  A calculation in flight is the set of     *)
(* locations it was started for; inFlight counts the calculations in       *)
(* flight for each set, up to MaxInFlight (beyond it the count stays).     *)
(***************************************************************************)
NumLocations == 2

MaxInFlight == 3

hasValidTravelTimes(travelTimes) == travelTimes = "valid"

(* Lines 41-53: the listener starts one calculation for the locations      *)
(* without valid travel times, if there are any.                           *)
locationsUpdatedListener(tr, fl) ==
  LET newLocations == {l \in DOMAIN tr : ~hasValidTravelTimes(tr[l])}
  IN  IF newLocations = {} THEN fl
      ELSE [fl EXCEPT ![newLocations] = IF @ < MaxInFlight THEN @ + 1 ELSE @]

(* updateLocationsWithTravelTimes: every result, in order, is patched into *)
(* its location, and each patch notifies the listener.  The state is the   *)
(* pair <<travel, inFlight>>; the results are those of locations l..n.     *)
RECURSIVE updateLocationsWithTravelTimes(_, _, _, _)
updateLocationsWithTravelTimes(state, calc, l, outcome) ==
  IF l > NumLocations THEN state
  ELSE IF l \notin calc \/ l \notin DOMAIN state[1]
    THEN updateLocationsWithTravelTimes(state, calc, l + 1, outcome)
  ELSE LET tr == [state[1] EXCEPT ![l] = IF outcome = "ok" THEN "valid" ELSE "zero"]
       IN  updateLocationsWithTravelTimes(
             <<tr, locationsUpdatedListener(tr, state[2])>>, calc, l + 1, outcome)

(* The requests of a calculation in flight are all answered ("ok") or all  *)
(* fail ("fail"), and calculateTravelTimes runs from line 88 to its end.   *)
CalculationCompletes(calc, outcome) ==
  /\ UNCHANGED <<engineVars, cacheVars, serviceVars, scoreVars, stackVars>>
  /\ calc \in DOMAIN inFlight
  /\ inFlight[calc] > 0
  /\ \E after \in { updateLocationsWithTravelTimes(
                      <<travel, [inFlight EXCEPT ![calc] = @ - 1]>>, calc, 1, outcome) } :
       travel' = after[1] /\ inFlight' = after[2]

(* LocationService has loaded n locations without travel times and its     *)
(* notification has been handled by the listener.                          *)
LoopInit ==
  /\ EngineInit /\ CacheInit(NoItem) /\ ServiceInit /\ ScoreIdle /\ StackIdle
  /\ \E n \in 1..NumLocations :
       /\ travel = [l \in 1..n |-> "none"]
       /\ inFlight = locationsUpdatedListener(travel, [c \in SUBSET (1..n) \ {{}} |-> 0])

LoopNext ==
  \E calc \in SUBSET (1..NumLocations), outcome \in {"ok", "fail"} :
    CalculationCompletes(calc, outcome)

(* Every calculation in flight completes in the end. *)
LoopSpec == LoopInit /\ [][LoopNext]_vars /\ WF_vars(LoopNext)

(* C27: after a locationsUpdated notification the system reaches, and      *)
(* stays in, a state with no calculation in flight or pending.             *)
C27_Quiescence == <>[](\A calc \in DOMAIN inFlight : inFlight[calc] = 0)

(***************************************************************************)
(* A batch calculation interleaved with changes of the work address: the   *)
(* 'userUpdated' listener runs while the calculation is suspended at an    *)
(* external request.  The calculation computes every result from `origin`, *)
(* the work coordinates it read at line 112; TravelTimeCache.set reads the *)
(* profile again when the results are cached (lines 598-608).              *)
(***************************************************************************)
InterleavedNext ==
  \/ \E n \in {0, 1, 2} : CalculateStart(n)
  \/ \E kind \in {"ok", "throw", "partial"}, sm \in StoreModes : WalkingResponse(kind, sm)
  \/ \E kind \in {"ok", "throw", "partial"}, sm \in StoreModes : AdditionalResponse(kind, sm)
  \/ \E o \in Origins \cup {Unset}, sm \in StoreModes : WorkAddressChanged(o, sm)

InterleavedSpec == ServiceSpecInit /\ [][InterleavedNext]_vars

(* C28: every cache entry written by the calculation with a resolved       *)
(* bundle (the entries the cache held before have a timestamp before its   *)
(* construction) records, in workCoords and in its key, the origin its     *)
(* bundle was computed from.                                               *)
C28_OriginConsistency ==
  \A i \in 1..Len(cache) :
    (cache[i].timestamp >= 0 /\ cache[i].data # BundleZero) =>
      /\ cache[i].workCoords = origin
      /\ \E d \in 1..Len(destinations) :
           cache[i].key = generateKey(origin, Position(destinations[d]))

(***************************************************************************)
(* TravelTimeCache over a store whose writes may fail every time, followed *)
(* call by call.  callStack holds the activations of set, clear and        *)
(* saveToStorage, innermost last; the engine's call stack holds StackDepth *)
(* of them, and a call beyond that throws a RangeError.                    *)
(***************************************************************************)
StackDepth == 9

(* set, lines 597-611: the entry is put in the map and saveToStorage called. *)
CallSet(d, travelTimes) ==
  /\ UNCHANGED <<engineVars, serviceVars, scoreVars, loopVars>>
  /\ callStack = <<>>
  /\ workCoords # Unset
  /\ cache' = MapSet(cache, [ key |-> generateKey(workCoords, Position(d)),
                              data |-> travelTimes,
                              timestamp |-> now,
                              workCoords |-> workCoords ])
  /\ callStack' = <<"set", "saveToStorage">>
  /\ attempts' = 0
  /\ UNCHANGED <<store, now, workCoords, lastOp, ticks, cacheOpsLeft>>

(* clear, lines 622-624: the map is emptied and saveToStorage called. *)
CallClear ==
  /\ UNCHANGED <<engineVars, serviceVars, scoreVars, loopVars>>
  /\ callStack = <<>>
  /\ cache' = <<>>
  /\ callStack' = <<"clear", "saveToStorage">>
  /\ attempts' = 0
  /\ UNCHANGED <<store, now, workCoords, lastOp, ticks, cacheOpsLeft>>

(* saveToStorage, lines 791-808: localStorage.setItem is called.  If it    *)
(* stores the data, or throws an error other than QuotaExceededError, the  *)
(* activations return one after the other (clear resets the statistics,    *)
(* set finds the map within MAX_ENTRIES).  If it throws                    *)
(* QuotaExceededError, the catch block calls clear(), which empties the    *)
(* map and calls saveToStorage again.                                      *)
WriteAttempt(outcome) ==
  /\ UNCHANGED <<engineVars, serviceVars, scoreVars, loopVars>>
  /\ callStack # <<>>
  /\ callStack[Len(callStack)] = "saveToStorage"
  /\ attempts' = attempts + 1
  /\ CASE outcome = "ok" ->
            /\ store' = Stored(cache)
            /\ callStack' = <<>>
            /\ UNCHANGED cache
       [] outcome = "error" ->
            /\ callStack' = <<>>
            /\ UNCHANGED <<cache, store>>
       [] outcome = "quota" ->
            /\ Len(callStack) + 2 <= StackDepth
            /\ cache' = <<>>
            /\ callStack' = callStack \o <<"clear", "saveToStorage">>
            /\ UNCHANGED store
  /\ UNCHANGED <<now, workCoords, lastOp, ticks, cacheOpsLeft>>

(* The call stack is exhausted by the next clear() or saveToStorage(): the *)
(* RangeError is thrown in a try block of saveToStorage, which logs it and *)
(* returns, so that the activations return one after the other             *)
(* ("returns"), or in a catch block, and leaves every activation           *)
(* ("propagates").                                                         *)
StackOverflow(how) ==
  /\ UNCHANGED <<engineVars, serviceVars, scoreVars, loopVars>>
  /\ callStack # <<>>
  /\ Len(callStack) + 2 > StackDepth
  /\ callStack' = <<>>
  /\ cache' = <<>>
  /\ lastOp' = [op |-> "RangeError", how |-> how]
  /\ UNCHANGED <<store, now, workCoords, ticks, cacheOpsLeft, attempts>>

StackNext ==
  \/ \E d \in Dests, b \in Bundles : CallSet(d, b)
  \/ CallClear
  \/ \E outcome \in {"ok", "error", "quota"} : WriteAttempt(outcome)
  \/ \E how \in {"returns", "propagates"} : StackOverflow(how)

StackInit ==
  /\ EngineInit /\ ServiceInit /\ ScoreIdle /\ LoopIdle /\ StackIdle
  /\ \E stored \in {NoItem, Stored(CachedBefore)} : CacheInit(stored)

StackSpec == StackInit /\ [][StackNext]_vars

(* C29: set and clear end after a bounded number of write attempts, also   *)
(* when every write throws a quota error: the activations of clear and     *)
(* saveToStorage that the error handling nests do not grow until the call  *)
(* stack is exhausted.                                                     *)
C29_BoundedRecursion ==
  /\ Len(callStack) + 2 <= StackDepth
  /\ lastOp.op # "RangeError"

(***************************************************************************)
(* AnalyticsEngine: re-entrant calls                                       *)
(*                                                                         *)
(* calculateAnalytics called from a plugin's calculate or from a listener  *)
(* of one of the events the calculation dispatches, as often as the bound  *)
(* allows: one calculation and two calls made while it runs fit into       *)
(* MaxCalcs + 1 calls.  The plugins and the configuration are left alone.  *)
(***************************************************************************)
ReentryInit ==
  /\ plugins = CoreIds
  /\ weights = DefaultWeights
  /\ isCalculating = FALSE
  /\ stack = <<>>
  /\ lastCall = NoCall
  /\ calcsLeft = MaxCalcs + 1
  /\ opsLeft = 0
  /\ CacheInit(NoItem) /\ ServiceInit /\ ScoreIdle /\ LoopIdle /\ StackIdle

ReentryNext ==
  \/ \E locations \in LocationLists : CalcStart(locations)
  \/ CalcReject
  \/ CalcBadInput
  \/ PluginReturn
  \/ PluginThrow
  \/ CalcFinish

ReentrySpec == ReentryInit /\ [][ReentryNext]_vars

(* C30: a rejected re-entrant calculateAnalytics does not release the      *)
(* guard of the calculation in flight: after the re-entrant call has       *)
(* thrown the engine is still calculating until the outer calculation      *)
(* ends, so no call can pass the guard and a further re-entrant call is    *)
(* rejected as well; and the outer calculation returns its complete        *)
(* result: every registered plugin was run once, in order, and the tables, *)
(* the overall scores and the ranking are those of the plugins that        *)
(* returned.                                                               *)
C30_RejectKeepsGuard ==
  /\ (stack # <<>> /\ Top.rejects > 0) =>
       /\ isCalculating
       /\ Len(stack) = 1
       /\ ~ENABLED CalcStartAny
       /\ calcsLeft > 0 => ENABLED CalcReject
  /\ (Returned /\ lastCall.rejects > 0) =>
       LET log == lastCall.log
           r == lastCall.result
           ok == ReturnedIds(log)
           overall == calculateOverallScores(r.pluginsExecuted, r.pluginScores,
                                             lastCall.locations, lastCall.endWeights)
       IN  /\ LogIds(log) = lastCall.startPlugins
           /\ SeqToSet(r.pluginsExecuted) = ok
           /\ DOMAIN r.pluginScores = ok
           /\ \A id \in ok : r.pluginScores[id] = PluginTable(id, lastCall.locations)
           /\ r.overallScores = overall
           /\ r.topLocations = getTopLocations(overall, lastCall.locations)
           /\ r.locationsProcessed = Len(lastCall.locations)

C30_Witness ==
  /\ Returned
  /\ lastCall.rejects >= 2
  /\ ReturnedIds(lastCall.log) # {}
  /\ lastCall.locations # <<>>

====
